---------------------------- MODULE Spec2Model ----------------------------
(***************************************************************************)
(* State-machine model of MasiveDelete.py: one invocation of the command   *)
(* line, from the parsing of sys.argv to the end of the process.  Every    *)
(* HTTP exchange is one step whose answer is chosen by the vendor.         *)
(***************************************************************************)
EXTENDS Integers, Sequences, FiniteSets, TLC

(* ------------------------------ constants ------------------------------ *)

SKEW == 30
DEFAULT_EXPIRES_IN == 3600
POLL_SLEEP == 5
CHUNK_SIZE == 100

(* ------------------------------- bounds -------------------------------- *)

\* longest identifier list read from the CSV file
MaxIds == 201
\* the clock stops advancing here (time.sleep saturates)
MaxNow == 12
\* latest reading of the clock when the process starts
MaxStart == 1

(* ------------------------------- domains ------------------------------- *)

Actions == {"create", "status", "download", "list_fields", "delete_batch"}
JobNames == {"job1", "id", "module"}

\* sys.argv: program name, action, positional arguments
Argvs ==
    {<<"prog">>}
    \cup {<<"prog", a>> : a \in Actions \cup {"bogus"}}
    \cup {<<"prog", a, "Tasks">> : a \in Actions \cup {"bogus"}}
    \cup {<<"prog", "create", "Tasks", n>> : n \in JobNames}
    \cup {<<"prog", a, "Tasks", "out">> : a \in (Actions \cup {"bogus"}) \ {"create"}}

\* status codes the vendor answers with
Statuses == {200, 400, 401, 500}

JobStates == {"QUEUED", "IN PROGRESS", "COMPLETED", "FAILURE", "FAILED"}
JobIds == {"j1", "j2"}

\* None, and the empty string: both are false in `if cached:`
NoToken == ""

NoCache == [ok |-> FALSE, access_token |-> NoToken, expires_at |-> 0]
InitExpiries == {SKEW, SKEW + 1, SKEW + POLL_SLEEP + 1, DEFAULT_EXPIRES_IN}
CacheFiles ==
    {NoCache} \cup
    {[ok |-> TRUE, access_token |-> "t0", expires_at |-> e] : e \in InitExpiries}

\* answers of the token endpoint: a token, an error status, or a 2xx body
\* without "access_token" (data["access_token"] raises KeyError)
TokenReplies ==
    {[kind |-> "ok", access_token |-> "t1", expires_in |-> x] :
        x \in {SKEW, DEFAULT_EXPIRES_IN}}
    \cup {[kind |-> k, access_token |-> NoToken, expires_in |-> 0] :
        k \in {"http_error", "bad_body"}}

NoReply == [kind |-> "none", access_token |-> NoToken, expires_in |-> 0]

OldRecord == [name |-> "old", id |-> "j0", module |-> "Tasks"]
NoHistory == [exists |-> FALSE, data |-> <<>>]
Histories ==
    {NoHistory, [exists |-> TRUE, data |-> <<>>],
     [exists |-> TRUE, data |-> <<OldRecord>>]}

\* the CSV file: whether it has an "Id" column, and the rows under it
IdOf(i, p) == IF p = 0 THEN i ELSE i % p
CsvFiles ==
    {[hasId |-> FALSE, ids |-> <<>>]} \cup
    {[hasId |-> TRUE, ids |-> [i \in 1..n |-> IdOf(i, p)]] :
        n \in 0..MaxIds, p \in {0, 3}}

NoRes == [state |-> "", id |-> ""]
NoGet == [called |-> FALSE, force |-> FALSE, before |-> NoCache, at |-> 0,
          reply |-> NoReply, contacted |-> FALSE, ret |-> NoToken]

(* ------------------------------ variables ------------------------------ *)

VARIABLES
    argv,           \* sys.argv
    pc,             \* position of the process
    outcome,        \* "running", "exit0", "exit1", or the uncaught exception
    now,            \* time.time()
    cache,          \* CACHE_FILE
    history,        \* the .jobshistory.json file
    prevHistory,    \* the history file as it was when the process started
    outfile,        \* the downloaded zip file: "", "payload" or "error_body"
    dlStatus,       \* status of the answer to the payload request, 0 before it
    jobState,       \* the vendor's state of the bulk read job
    caller,         \* who called api_request
    attempt,        \* loop variable of api_request
    calllog,        \* the exchanges of the current api_request call, in order
    res,            \* what api_request returned
    lastGet,        \* the latest get_access_token call
    httpSent,       \* whether any HTTP request has left the process
    ids,            \* identifiers read from the CSV file
    batches,        \* what chunked(ids, 100) yields
    k,              \* index of the next batch
    total_deleted,  \* success count of delete_batch_from_file
    delLog          \* delete calls issued: <<batch index, status>>

vars == <<argv, pc, outcome, now, cache, history, prevHistory, outfile,
          dlStatus, jobState, caller, attempt, calllog, res, lastGet, httpSent,
          ids, batches, k, total_deleted, delLog>>

apiVars == <<caller, attempt, calllog, res>>
delVars == <<ids, batches, k, total_deleted, delLog>>
fileVars == <<history, prevHistory, outfile, dlStatus>>

(* ------------------------------- helpers ------------------------------- *)

Min(a, b) == IF a <= b THEN a ELSE b

\* requests.Response.raise_for_status: raises HTTPError for 4xx and 5xx
RaisesForStatus(s) == s >= 400 /\ s < 600

\* time.sleep(5) followed by the next reading of the clock
Sleep(t) == Min(t + POLL_SLEEP, MaxNow)

\* _load_cached_token with >= for >
LoadWrong(c, t) ==
    IF c.ok /\ c.expires_at - t >= SKEW THEN c.access_token ELSE NoToken

\* _load_cached_token: the cached token, or None
_load_cached_token(c, t) ==
    IF c.ok /\ c.expires_at - t > SKEW THEN c.access_token ELSE NoToken

\* _save_cached_token: the cache file written
_save_cached_token(token, expires_in, t) ==
    [ok |-> TRUE, access_token |-> token, expires_at |-> t + expires_in]

\* get_access_token, given the answer the token endpoint would give:
\* the token returned or the exception raised, the cache file afterwards,
\* and whether the token endpoint was contacted
get_access_token(force_refresh, c, t, reply) ==
    LET cached == IF force_refresh THEN NoToken ELSE _load_cached_token(c, t)
    IN  IF ~force_refresh /\ cached # NoToken
        THEN [ret |-> cached, exc |-> "", cache |-> c, contacted |-> FALSE]
        ELSE IF reply.kind = "http_error"
        THEN [ret |-> NoToken, exc |-> "HTTPError", cache |-> c, contacted |-> TRUE]
        ELSE IF reply.kind = "bad_body"
        THEN [ret |-> NoToken, exc |-> "KeyError", cache |-> c, contacted |-> TRUE]
        ELSE [ret |-> reply.access_token, exc |-> "",
              cache |-> _save_cached_token(reply.access_token, reply.expires_in, t),
              contacted |-> TRUE]

\* the record of a get_access_token call
GetRecord(force_refresh, reply, g) ==
    [called |-> TRUE, force |-> force_refresh, before |-> cache, at |-> now,
     reply |-> IF g.contacted THEN reply ELSE NoReply,
     contacted |-> g.contacted, ret |-> g.ret]

\* a Python dict display: later pairs replace earlier ones with the same key
DictOf(pairs) ==
    LET keys == {pairs[i][1] : i \in 1..Len(pairs)}
        last(key) == CHOOSE i \in 1..Len(pairs) :
                        /\ pairs[i][1] = key
                        /\ \A j \in 1..Len(pairs) : pairs[j][1] = key => j <= i
    IN  [key \in keys |-> pairs[last(key)][2]]

\* dataToSave of create_bulk_read_job
dataToSave(name, id, module_name) ==
    DictOf(<< <<name, name>>, <<"id", id>>, <<"module", module_name>> >>)

\* chunked with islice(it, size) for islice(it, size - 1)
RECURSIVE chunkedWrong(_, _)
chunkedWrong(iterable, size) ==
    IF Len(iterable) = 0 THEN <<>>
    ELSE LET n == Min(1 + size, Len(iterable))
         IN  <<SubSeq(iterable, 1, n)>>
             \o chunkedWrong(SubSeq(iterable, n + 1, Len(iterable)), size)

\* chunked(iterable, size): the batches the generator yields
RECURSIVE chunked(_, _)
chunked(iterable, size) ==
    IF Len(iterable) = 0 THEN <<>>
    ELSE LET n == Min(1 + (size - 1), Len(iterable))
         IN  <<SubSeq(iterable, 1, n)>>
             \o chunked(SubSeq(iterable, n + 1, Len(iterable)), size)

\* total_deleted += 1 for total_deleted += len(batch)
AddDeletedWrong(total, batch) == total + 1

\* total_deleted += len(batch)
AddDeleted(total, batch) == total + Len(batch)

\* "FAILED" left out of the states check_job_status raises on
IsFailureWrong(state) == state \in {"FAILURE"}

\* the states check_job_status raises on
IsFailure(state) == state \in {"FAILURE", "FAILED"}

Running == outcome = "running"


(* -------------------------------- start -------------------------------- *)

\* whether the command line names a job of the vendor (status, download)
NamesJob(a) == Len(a) >= 2 /\ a[2] \in {"status", "download"}

\* The state when the interpreter reaches the __main__ block.  The history
\* file is enumerated for the one action that opens it, the vendor's job for
\* the actions that name one.
Init ==
    /\ argv \in Argvs
    /\ pc = "main"
    /\ outcome = "running"
    /\ now \in 0..MaxStart
    /\ cache \in CacheFiles
    /\ history \in (IF Len(argv) >= 2 /\ argv[2] = "create"
                    THEN Histories ELSE {NoHistory})
    /\ prevHistory = history
    /\ outfile = ""
    /\ dlStatus = 0
    /\ jobState \in (IF NamesJob(argv) THEN JobStates ELSE {"QUEUED"})
    /\ caller = ""
    /\ attempt = 0
    /\ calllog = <<>>
    /\ res = NoRes
    /\ lastGet = NoGet
    /\ httpSent = FALSE
    /\ ids = <<>>
    /\ batches = <<>>
    /\ k = 1
    /\ total_deleted = 0
    /\ delLog = <<>>

\* entering api_request on behalf of `who`
CallApi(who) ==
    /\ pc' = "api_token"
    /\ caller' = who
    /\ attempt' = 0
    /\ calllog' = <<>>
    /\ res' = NoRes

\* sys.exit(code), or the end of the script
Exit(code) == outcome' = code

\* an exception nobody catches ends the process where it was raised
Raise(exc) == outcome' = exc

\* the number of positional arguments an action needs, as len(sys.argv)
NeedsArgc(action) ==
    IF action \in {"create", "download", "delete_batch"} THEN 4 ELSE 3

\* the __main__ block up to the first call it makes
Main ==
    /\ Running /\ pc = "main"
    /\ UNCHANGED <<argv, now, cache, fileVars, jobState, lastGet, httpSent,
                   delVars>>
    /\ IF Len(argv) < 2
       THEN Exit("exit1") /\ UNCHANGED <<pc, apiVars>>
       ELSE IF argv[2] \notin Actions
       THEN Exit("exit0") /\ UNCHANGED <<pc, apiVars>>
       ELSE IF Len(argv) < NeedsArgc(argv[2])
       THEN Exit("exit1") /\ UNCHANGED <<pc, apiVars>>
       ELSE IF argv[2] = "create"
       THEN CallApi("create") /\ UNCHANGED outcome
       ELSE IF argv[2] = "status"
       THEN CallApi("status") /\ UNCHANGED outcome
       ELSE IF argv[2] = "download"
       THEN CallApi("dl_main") /\ UNCHANGED outcome
       ELSE IF argv[2] = "list_fields"
       THEN CallApi("list_fields") /\ UNCHANGED outcome
       ELSE pc' = "del_read" /\ UNCHANGED <<outcome, apiVars>>

(* ----------------------------- api_request ----------------------------- *)

\* a get_access_token call at position `at`, going on at `next` when it
\* returns; `force_refresh` as in the code
GetToken(at, force_refresh, next) ==
    /\ Running /\ pc = at
    /\ \E reply \in TokenReplies :
        LET g == get_access_token(force_refresh, cache, now, reply)
        IN  /\ cache' = g.cache
            /\ lastGet' = GetRecord(force_refresh, reply, g)
            /\ httpSent' = (httpSent \/ g.contacted)
            /\ calllog' = IF at \in {"api_token", "api_force"}
                          THEN Append(calllog,
                                 [ev |-> IF force_refresh THEN "force" ELSE "token",
                                  status |-> 0, contacted |-> g.contacted,
                                  exc |-> g.exc])
                          ELSE calllog
            /\ IF g.exc # ""
               THEN Raise(g.exc) /\ UNCHANGED pc
               ELSE pc' = next /\ UNCHANGED outcome

\* line 73: the Authorization header of this attempt
ApiToken ==
    /\ GetToken("api_token", FALSE, "api_send")
    /\ UNCHANGED <<argv, now, fileVars, jobState, caller, attempt, res,
                   delVars>>

\* where api_request's caller goes on with the value returned
ReturnTo(who) ==
    CASE who = "create" -> "create_save"
      [] who = "status" -> "poll_check"
      [] who = "dl_main" -> "dl_main_check"
      [] who = "dl_pages" -> "dl_token"
      [] who = "list_fields" -> "lf_print"

\* the JSON bodies the vendor may answer a successful request with
Bodies(who) ==
    IF who = "create" THEN {[state |-> "", id |-> j] : j \in JobIds}
    ELSE IF who = "list_fields" THEN {NoRes}
    ELSE {[state |-> jobState, id |-> ""]}

\* lines 74-79: the request, and the return or the raise on its answer
ApiSend ==
    /\ Running /\ pc = "api_send"
    /\ \E s \in Statuses :
        /\ calllog' = Append(calllog, [ev |-> "request", status |-> s,
                                       contacted |-> TRUE, exc |-> ""])
        /\ httpSent' = TRUE
        /\ IF s # 401
           THEN IF RaisesForStatus(s)
                THEN Raise("HTTPError") /\ UNCHANGED <<pc, res>>
                ELSE /\ \E body \in Bodies(caller) : res' = body
                     /\ pc' = ReturnTo(caller)
                     /\ UNCHANGED outcome
           ELSE pc' = "api_force" /\ UNCHANGED <<outcome, res>>
    /\ UNCHANGED <<argv, now, cache, fileVars, jobState, caller, attempt,
                   lastGet, delVars>>

\* lines 82-83: the forced refresh after a 401; then the next attempt, or
\* the end of the loop
ApiForce ==
    /\ GetToken("api_force", TRUE, IF attempt = 0 THEN "api_token" ELSE "api_raise")
    /\ attempt' = IF outcome' = "running" THEN 1 ELSE attempt
    /\ UNCHANGED <<argv, now, fileVars, jobState, caller, res, delVars>>

\* line 84: raise_for_status on the 401 of the last attempt
ApiRaise ==
    /\ Running /\ pc = "api_raise"
    /\ Raise("HTTPError")
    /\ UNCHANGED <<argv, pc, now, cache, fileVars, jobState, apiVars, lastGet,
                   httpSent, delVars>>

(* ------------------------- create_bulk_read_job ------------------------ *)

\* lines 106-118 and 212: the record appended to the history file
CreateSave ==
    /\ Running /\ pc = "create_save"
    /\ LET rec == dataToSave(argv[4], res.id, argv[3])
       IN  history' = [exists |-> TRUE,
                       data |-> IF history.exists
                                THEN Append(history.data, rec) ELSE <<rec>>]
    /\ Exit("exit0")
    /\ UNCHANGED <<argv, pc, now, cache, prevHistory, outfile, dlStatus,
                   jobState, apiVars, lastGet, httpSent, delVars>>

(* ----------------------------- list_fields ----------------------------- *)

\* lines 89-90: the fields printed
ListFieldsPrint ==
    /\ Running /\ pc = "lf_print"
    /\ Exit("exit0")
    /\ UNCHANGED <<argv, pc, now, cache, fileVars, jobState, apiVars, lastGet,
                   httpSent, delVars>>

(* --------------------------- check_job_status -------------------------- *)

\* lines 123-132 and 220: the state polled decides return, raise or sleep
PollCheck ==
    /\ Running /\ pc = "poll_check"
    /\ IF res.state = "COMPLETED"
       THEN Exit("exit0") /\ UNCHANGED <<pc, now, apiVars>>
       ELSE IF IsFailure(res.state)
       THEN Raise("RuntimeError") /\ UNCHANGED <<pc, now, apiVars>>
       ELSE now' = Sleep(now) /\ CallApi("status") /\ UNCHANGED outcome
    /\ UNCHANGED <<argv, cache, fileVars, jobState, lastGet, httpSent, delVars>>

(* ------------------------------- download ------------------------------ *)

\* lines 232-239 and 137: the job must be COMPLETED; then download_all_pages
\* asks for it again
DlMainCheck ==
    /\ Running /\ pc = "dl_main_check"
    /\ IF res.state # "COMPLETED"
       THEN Exit("exit1") /\ UNCHANGED <<pc, apiVars>>
       ELSE CallApi("dl_pages") /\ UNCHANGED outcome
    /\ UNCHANGED <<argv, now, cache, fileVars, jobState, lastGet, httpSent,
                   delVars>>

\* lines 148-149: the Authorization header of the payload request
DlToken ==
    /\ GetToken("dl_token", FALSE, "dl_get")
    /\ UNCHANGED <<argv, now, fileVars, jobState, caller, attempt, res, delVars>>

\* the body of the answer to the payload request
BodyOf(s) == IF s = 200 THEN "payload" ELSE "error_body"

\* lines 153-158: SESSION.get, and the answer's body written to the zip file
DlGet ==
    /\ Running /\ pc = "dl_get"
    /\ \E s \in Statuses :
        /\ dlStatus' = s
        /\ outfile' = BodyOf(s)
    /\ httpSent' = TRUE
    /\ Exit("exit0")
    /\ UNCHANGED <<argv, pc, now, cache, history, prevHistory, jobState,
                   apiVars, lastGet, delVars>>

(* ------------------------ delete_batch_from_file ----------------------- *)

\* lines 166-174: the identifiers under the "Id" column
DelRead ==
    /\ Running /\ pc = "del_read"
    /\ \E csv \in CsvFiles :
        IF ~csv.hasId
        THEN Raise("RuntimeError") /\ UNCHANGED <<pc, ids>>
        ELSE ids' = csv.ids /\ pc' = "del_token" /\ UNCHANGED outcome
    /\ UNCHANGED <<argv, now, cache, fileVars, jobState, apiVars, lastGet,
                   httpSent, batches, k, total_deleted, delLog>>

\* lines 181-185: one token for the whole run, then the loop over the batches
DelToken ==
    /\ GetToken("del_token", FALSE, "del_loop")
    /\ batches' = IF outcome' = "running" THEN chunked(ids, CHUNK_SIZE) ELSE batches
    /\ UNCHANGED <<argv, now, fileVars, jobState, caller, attempt, res, ids, k,
                   total_deleted, delLog>>

\* lines 186-195: the delete call of batch k
DelSend ==
    /\ Running /\ pc = "del_loop" /\ k <= Len(batches)
    /\ \E s \in Statuses :
        /\ delLog' = Append(delLog, <<k, s>>)
        /\ IF RaisesForStatus(s)
           THEN Raise("HTTPError") /\ UNCHANGED <<k, total_deleted>>
           ELSE /\ total_deleted' = AddDeleted(total_deleted, batches[k])
                /\ k' = k + 1
                /\ UNCHANGED outcome
    /\ httpSent' = TRUE
    /\ UNCHANGED <<argv, pc, now, cache, fileVars, jobState, apiVars, lastGet,
                   ids, batches>>

\* line 197: the loop is over
DelDone ==
    /\ Running /\ pc = "del_loop" /\ k > Len(batches)
    /\ Exit("exit0")
    /\ UNCHANGED <<argv, pc, now, cache, fileVars, jobState, apiVars, lastGet,
                   httpSent, delVars>>

(* ------------------------------ the vendor ----------------------------- *)

Terminal(state) == state \in {"COMPLETED", "FAILURE", "FAILED"}

\* the bulk read job moves on: queued, in progress, then completed or failed
VendorAdvance ==
    /\ Running /\ NamesJob(argv) /\ ~Terminal(jobState)
    /\ jobState' \in
        (IF jobState = "QUEUED" THEN JobStates \ {"QUEUED"}
         ELSE {"COMPLETED", "FAILURE", "FAILED"})
    /\ UNCHANGED <<argv, pc, outcome, now, cache, fileVars, apiVars, lastGet,
                   httpSent, delVars>>

(* ---------------------------- specification ---------------------------- *)

\* the steps of the process
Program ==
    \/ Main
    \/ ApiToken
    \/ ApiSend
    \/ ApiForce
    \/ ApiRaise
    \/ CreateSave
    \/ ListFieldsPrint
    \/ PollCheck
    \/ DlMainCheck
    \/ DlToken
    \/ DlGet
    \/ DelRead
    \/ DelToken
    \/ DelSend
    \/ DelDone

Next == Program \/ VendorAdvance

Spec == Init /\ [][Next]_vars

\* the process is single-threaded and never waits except in time.sleep:
\* while it has a step to take, it takes one
LiveSpec == Spec /\ WF_vars(Program)

(* ----------------------------- properties ------------------------------ *)

IsRequest(e) == e.ev = "request"
InApiRequest == pc \in {"api_token", "api_send", "api_force", "api_raise"}

\* C1: an api_request call sends at most two requests, the second only
\* after a 401 to the first, and when the second is answered with an error
\* status too the call does not return and ends by raising an HTTP error.
C1_AtMostOneRetry ==
    LET reqs == SelectSeq(calllog, IsRequest)
    IN  /\ Len(reqs) <= 2
        /\ Len(reqs) = 2 => reqs[1].status = 401
        /\ (Len(reqs) = 2 /\ reqs[2].status >= 400) =>
              /\ InApiRequest
              /\ outcome \in {"running", "HTTPError"}

\* C2: without force_refresh, get_access_token returns the cached token
\* without contacting the token endpoint exactly when the cache is readable
\* and expires_at - now > SKEW; otherwise it contacts the token endpoint and
\* the token answered is stored with expires_at = now + expires_in and
\* returned.
C2_CachedIffFresh ==
    (lastGet.called /\ ~lastGet.force) =>
        LET b == lastGet.before
            fresh == b.ok /\ b.expires_at - lastGet.at > SKEW
        IN  /\ ~lastGet.contacted <=> fresh
            /\ fresh => (lastGet.ret = b.access_token /\ cache = b)
            /\ (~fresh /\ lastGet.reply.kind = "ok") =>
                  /\ lastGet.ret = lastGet.reply.access_token
                  /\ cache = [ok |-> TRUE,
                              access_token |-> lastGet.reply.access_token,
                              expires_at |-> lastGet.at + lastGet.reply.expires_in]

\* the token endpoint was asked although the cached token had exactly SKEW
\* seconds left, at a time other than 0
C2_Witness ==
    /\ lastGet.called /\ ~lastGet.force /\ lastGet.contacted
    /\ lastGet.before.ok /\ lastGet.before.expires_at - lastGet.at = SKEW
    /\ lastGet.at > 0
    /\ lastGet.reply.kind = "ok"
    /\ cache.expires_at = lastGet.at + DEFAULT_EXPIRES_IN

RECURSIVE Concat(_)
Concat(seqs) == IF seqs = <<>> THEN <<>> ELSE Head(seqs) \o Concat(Tail(seqs))

\* C3: the N identifiers are split into ceil(N/100) batches, none empty,
\* none longer than 100, whose concatenation in order is the list read.
C3_Chunking ==
    pc = "del_loop" =>
        /\ Len(batches) = (Len(ids) + 99) \div 100
        /\ \A i \in 1..Len(batches) :
              Len(batches[i]) >= 1 /\ Len(batches[i]) <= 100
        /\ Concat(batches) = ids

\* a list one longer than two full batches is split in three
C3_Witness ==
    /\ pc = "del_loop"
    /\ Len(ids) = 201
    /\ Len(batches) = 3
    /\ Len(batches[3]) = 1

RECURSIVE SumLens(_, _)
SumLens(seqs, n) == IF n = 0 THEN 0 ELSE SumLens(seqs, n - 1) + Len(seqs[n])

\* C4: the delete calls go out one per batch in batch order; a call answered
\* with an error status is the last one, the routine raises, and the success
\* count is the size of the batches before it; with no failure the count is N.
C4_DeleteLoop ==
    /\ \A i \in 1..Len(delLog) : delLog[i][1] = i
    /\ \A i \in 1..Len(delLog) :
          delLog[i][2] >= 400 =>
              /\ i = Len(delLog)
              /\ outcome = "HTTPError"
              /\ total_deleted = SumLens(batches, i - 1)
    /\ (pc = "del_loop" /\ outcome = "exit0") =>
          /\ Len(delLog) = Len(batches)
          /\ total_deleted = Len(ids)

\* the third batch's delete fails after two full batches were deleted
C4_Witness ==
    /\ Len(delLog) = 3
    /\ delLog[3][2] = 500
    /\ outcome = "HTTPError"
    /\ total_deleted = 200
    /\ Len(ids) = 201

\* C5: a batch whose delete call is answered 401 has its delete call sent
\* again before the failure is surfaced.
C5_DeleteRetriesOn401 ==
    outcome # "running" =>
        \A i \in 1..Len(delLog) :
            delLog[i][2] = 401 =>
                \E j \in 1..Len(delLog) : j > i /\ delLog[j][1] = delLog[i][1]

StatusRun == Len(argv) >= 3 /\ argv[2] = "status"

\* C6: a poll that sees COMPLETED ends the process normally and one that
\* sees FAILURE or FAILED raises, neither sending another request; any other
\* state is followed by the sleep and another status request; and once the
\* vendor's job is in a terminal state the polling ends.
C6_Polling ==
    /\ [][(pc = "poll_check" /\ Running /\ <<pc, outcome>>' # <<pc, outcome>>) =>
            IF res.state = "COMPLETED"
            THEN outcome' = "exit0" /\ UNCHANGED <<calllog, httpSent, now>>
            ELSE IF res.state \in {"FAILURE", "FAILED"}
            THEN outcome' = "RuntimeError" /\ UNCHANGED <<calllog, httpSent, now>>
            ELSE /\ outcome' = "running"
                 /\ pc' = "api_token" /\ caller' = "status"
                 /\ now' = (IF now + 5 <= MaxNow THEN now + 5 ELSE MaxNow)]_vars
    /\ (StatusRun /\ Terminal(jobState)) ~> ~Running

\* the job was seen COMPLETED at the third poll, after two sleeps
C6_Witness ==
    /\ StatusRun /\ pc = "poll_check"
    /\ outcome = "exit0"
    /\ res.state = "COMPLETED"
    /\ now >= MaxStart + 2 * POLL_SLEEP

\* C7: a command line with a usage error ends with a non-zero exit status
\* and sends no HTTP request.
C7_UsageErrorExitsNonZero ==
    LET needs == IF Len(argv) < 2 THEN 0
                 ELSE IF argv[2] \in {"status", "list_fields"} THEN 1 ELSE 2
        usageError == \/ Len(argv) < 2
                      \/ argv[2] \notin Actions
                      \/ Len(argv) - 2 < needs
    IN  usageError => (~httpSent /\ outcome \in {"running", "exit1"})

\* C8: an error answer to the payload request of download is raised as an
\* HTTP error, and the result file holds nothing but a successful payload.
C8_DownloadPropagatesErrors ==
    /\ dlStatus >= 400 => outcome = "HTTPError"
    /\ outfile # "" => (dlStatus = 200 /\ outfile = "payload")

\* C9: within one api_request call there is at most one forced refresh, and
\* it comes after exactly one request, which was answered 401.
C9_OneForcedRefresh ==
    LET forces == {i \in 1..Len(calllog) : calllog[i].ev = "force"}
    IN  /\ Cardinality(forces) <= 1
        /\ \A i \in forces :
              LET before == SelectSeq(SubSeq(calllog, 1, i - 1), IsRequest)
              IN  Len(before) = 1 /\ before[1].status = 401

\* C10: after a successful create the history file is the previous history
\* followed by the one record {name, id, module} of the job created.
C10_HistoryRecord ==
    (pc = "create_save" /\ outcome = "exit0") =>
        /\ history.exists
        /\ history.data = prevHistory.data \o
              <<[name |-> argv[4], id |-> res.id, module |-> argv[3]]>>

=============================================================================
